---- MODULE Spec2Model ----
(***************************************************************************)
(* Client-side workflow of transcripter/static/script.js: the              *)
(* notification-based handler set (first DOMContentLoaded block).          *)
(*                                                                         *)
(* The state is the DOM state the handlers read and write (file input,     *)
(* category selector, the two buttons' disabled flags, the three output    *)
(* areas, the notification slot), the closure variable transcribedText,    *)
(* and the fetch calls that are awaiting their response.  Every handler    *)
(* runs to its first await atomically (single-threaded event loop); the    *)
(* continuation after the awaits runs atomically when the response comes.  *)
(***************************************************************************)
EXTENDS Integers, Sequences, FiniteSets, Bags, TLC

\* ------------------------------------------------------------------ bounds
\* at most this many fetches to the transcription service, and to
\* /summarize_and_notes, are awaited at once in the model
MaxTranscribeFetches == 2
MaxSummarizeFetches == 2

\* ------------------------------------------------------- JavaScript values
\* `undefined`, as read from a missing property of a parsed body
Undefined == "#undefined"
\* no file in audioFile.files / an emptied notificationArea
None == [name |-> "", type |-> "", size |-> -1]
NoNotification == [message |-> "", type |-> "none"]

\* JS truthiness of a string-or-undefined value (operand of ! and ||)
Truthy(v) == v # "" /\ v # Undefined
\* conversion to DOMString done by the value / innerHTML / textContent setters
ToDOMString(v) == IF v = Undefined THEN "undefined" ELSE v

\* ---------------------------------------------------------------- validator
allowedTypes ==
    {"audio/wav", "audio/mpeg", "audio/x-m4a", "audio/mp4", "audio/vnd.wav", "audio/aac"}
maxSizeMB == 10

\* (variant: the size is checked before the type)
ValidateSizeFirst(file) ==
    IF file.size > maxSizeMB * 1024 * 1024 THEN "TooLarge"
    ELSE IF file.type \notin allowedTypes THEN "InvalidType"
    ELSE "Ok"

\* (variant: the allow-list is not consulted, any declared type passes)
ValidateSizeOnly(file) ==
    IF file.type = "" THEN "InvalidType"
    ELSE IF file.size > maxSizeMB * 1024 * 1024 THEN "TooLarge"
    ELSE "Ok"

\* outcome of the two client-side checks of the change listener, in the
\* order the listener makes them
Validate(file) ==
    IF file.type \notin allowedTypes THEN "InvalidType"
    ELSE IF file.size > maxSizeMB * 1024 * 1024 THEN "TooLarge"
    ELSE "Ok"

InvalidTypeMessage == "Invalid file type. Please upload WAV, MP3, or M4A."
TooLargeMessage == "File size exceeds " \o ToString(maxSizeMB) \o " MB limit."

\* ------------------------------------------------------------------- inputs
\* files the user can pick: valid ones (one exactly at the ceiling) and one
\* of each way of failing validation
Files ==
    { [name |-> "a.wav",   type |-> "audio/wav",  size |-> 2 * 1024 * 1024],
      [name |-> "b.mp3",   type |-> "audio/mpeg", size |-> maxSizeMB * 1024 * 1024],
      [name |-> "n.txt",   type |-> "text/plain", size |-> 10],
      [name |-> "big.wav", type |-> "audio/wav",  size |-> maxSizeMB * 1024 * 1024 + 1],
      [name |-> "big.txt", type |-> "text/plain", size |-> maxSizeMB * 1024 * 1024 + 1] }

\* options of the category selector the user picks: the default and another
Categories == {"meeting", "lecture"}

\* text the transcription service produces for a file
TextOf(file) == "text of " \o file.name

\* message of the SyntaxError thrown by response.json() on a non-JSON body,
\* and of the TypeError that rejects fetch on a transport failure
JsonSyntaxErrorMessage == "Unexpected token < in JSON at position 0"
NetworkErrorMessage == "Failed to fetch"
NotesTypeErrorMessage == "Cannot read properties of undefined (reading 'map')"

\* A response: network = FALSE is a rejected fetch; otherwise ok/status are
\* the HTTP outcome and parses says whether the body is JSON, whose
\* properties (Undefined when absent) follow.
Response(network, ok, status, parses, detail, transcription, summary, notes) ==
    [network |-> network, ok |-> ok, status |-> status, parses |-> parses,
     detail |-> detail, transcription |-> transcription,
     summary |-> summary, notes |-> notes]

\* the notes property when the body has none
NoNotes == <<Undefined>>

\* what the transcription service can answer to the upload of file: the
\* text, an empty text, a body without the transcription property, an error
\* with a detail, or nothing (transport failure)
TranscribeResponses(file) ==
    { Response(TRUE, TRUE, 200, TRUE, Undefined, TextOf(file), Undefined, NoNotes),
      Response(TRUE, TRUE, 200, TRUE, Undefined, "", Undefined, NoNotes),
      Response(TRUE, TRUE, 200, TRUE, Undefined, Undefined, Undefined, NoNotes),
      Response(TRUE, FALSE, 500, TRUE, "model overloaded", Undefined, Undefined, NoNotes),
      Response(FALSE, FALSE, 0, FALSE, Undefined, Undefined, Undefined, NoNotes) }

\* what /summarize_and_notes can answer
SummarizeResponses ==
    { Response(TRUE, TRUE, 200, TRUE, Undefined, Undefined, "<p>ok</p>", <<"a", "b">>),
      Response(TRUE, FALSE, 500, TRUE, "quota exceeded", Undefined, Undefined, NoNotes),
      Response(FALSE, FALSE, 0, FALSE, Undefined, Undefined, Undefined, NoNotes) }

\* the same, with the other bodies a response can have: an error without
\* detail, and bodies that are not JSON (under a 2xx and a non-2xx status)
AllTranscribeResponses(file) ==
    TranscribeResponses(file) \cup
    { Response(TRUE, FALSE, 500, TRUE, Undefined, Undefined, Undefined, NoNotes),
      Response(TRUE, FALSE, 502, FALSE, Undefined, Undefined, Undefined, NoNotes),
      Response(TRUE, TRUE, 200, FALSE, Undefined, Undefined, Undefined, NoNotes) }

\* the same for /summarize_and_notes, with 2xx bodies that lack the summary
\* or the notes property as well
AllSummarizeResponses ==
    SummarizeResponses \cup
    { Response(TRUE, TRUE, 200, TRUE, Undefined, Undefined, "<p>ok</p>", NoNotes),
      Response(TRUE, TRUE, 200, TRUE, Undefined, Undefined, Undefined, <<"a", "b">>),
      Response(TRUE, FALSE, 500, TRUE, Undefined, Undefined, Undefined, NoNotes),
      Response(TRUE, FALSE, 502, FALSE, Undefined, Undefined, Undefined, NoNotes) }

\* -------------------------------------------------------------------- state
VARIABLES
    audioFile,               \* audioFile.files[0], None when no file is selected
    categorySelect,          \* categorySelect.value
    transcribeButtonDisabled,\* transcribeButton.disabled
    summarizeButtonDisabled, \* summarizeButton.disabled
    transcriptionOutput,     \* transcriptionOutput.value
    summaryOutput,           \* summaryOutput.innerHTML
    notesOutput,             \* notesOutput.innerHTML
    notificationArea,        \* the notification in the slot, or NoNotification
    transcribedText,         \* closure variable transcribedText
    transcribeFetches,       \* bag of the awaited fetches to the transcription service
    summarizeFetches,        \* bag of the awaited fetches to /summarize_and_notes
    event                    \* history: the handler that ran last, its input and the
                             \* value transcribedText had when it started

vars == <<audioFile, categorySelect, transcribeButtonDisabled, summarizeButtonDisabled,
          transcriptionOutput, summaryOutput, notesOutput, notificationArea,
          transcribedText, transcribeFetches, summarizeFetches, event>>

\* ------------------------------------------------------------------ helpers
\* showNotification: the slot is emptied and the new notification put in it
showNotification(message, type) == [message |-> ToDOMString(message), type |-> type]

Event(kind, file, response) ==
    [kind |-> kind, file |-> file, response |-> response, before |-> transcribedText]
NoResponse == Response(FALSE, FALSE, -1, FALSE, Undefined, Undefined, Undefined, NoNotes)

\* error.message of what the try block throws for response r, "" when the
\* try block gets past both awaits (fetch, response.json) without throwing
ThrownMessage(r) ==
    IF ~r.network THEN NetworkErrorMessage
    ELSE IF ~r.parses THEN JsonSyntaxErrorMessage
    ELSE IF ~r.ok
         THEN (IF Truthy(r.detail) THEN r.detail
               ELSE "HTTP error! status: " \o ToString(r.status))
    ELSE ""

Throws(r) == ~r.network \/ ~r.parses \/ ~r.ok

RECURSIVE RenderNotesReversed(_)
\* (variant: the items are joined last note first)
RenderNotesReversed(notes) ==
    IF notes = <<>> THEN ""
    ELSE RenderNotesReversed(Tail(notes)) \o "<li>" \o ToDOMString(Head(notes)) \o "</li>"

RECURSIVE RenderNotes(_)
\* data.notes.map(note => `<li>${note}</li>`).join('')
RenderNotes(notes) ==
    IF notes = <<>> THEN ""
    ELSE "<li>" \o ToDOMString(Head(notes)) \o "</li>" \o RenderNotes(Tail(notes))

\* --------------------------------------------------------------------- Init
\* the page as loaded (no file, no fetch) after the initial resetUI() call
Init ==
    /\ audioFile = None
    /\ categorySelect = "meeting"
    /\ transcribeButtonDisabled = TRUE
    /\ summarizeButtonDisabled = TRUE
    /\ transcriptionOutput = ""
    /\ summaryOutput = ""
    /\ notesOutput = ""
    /\ transcribedText = ""
    /\ notificationArea = showNotification("UI has been reset.", "info")
    /\ transcribeFetches = EmptyBag
    /\ summarizeFetches = EmptyBag
    /\ event = [kind |-> "load", file |-> None, response |-> NoResponse, before |-> ""]

\* ------------------------------------------------------------------ actions
\* function resetUI(): the file input is not touched
resetUI ==
    /\ categorySelect' = "meeting"
    /\ transcribeButtonDisabled' = TRUE
    /\ summarizeButtonDisabled' = TRUE
    /\ transcriptionOutput' = ""
    /\ summaryOutput' = ""
    /\ notesOutput' = ""
    /\ transcribedText' = ""
    /\ notificationArea' = showNotification("UI has been reset.", "info")

\* resetButton click listener
ResetClick ==
    /\ resetUI
    /\ event' = Event("reset", None, NoResponse)
    /\ UNCHANGED <<audioFile, transcribeFetches, summarizeFetches>>

\* (variant: the accepting path forgets transcribedText = "")
AudioFileChangeKeepsText(f) ==
    /\ f # audioFile
    /\ event' = Event("change", f, NoResponse)
    /\ IF f # None /\ Validate(f) # "Ok"
       THEN /\ notificationArea' = showNotification(
                   IF Validate(f) = "InvalidType" THEN InvalidTypeMessage ELSE TooLargeMessage,
                   "error")
            /\ audioFile' = None
            /\ transcribeButtonDisabled' = TRUE
            /\ UNCHANGED <<transcriptionOutput, summaryOutput, notesOutput, transcribedText>>
       ELSE /\ audioFile' = f
            /\ transcribeButtonDisabled' = (f = None)
            /\ transcriptionOutput' = ""
            /\ summaryOutput' = ""
            /\ notesOutput' = ""
            /\ UNCHANGED <<transcribedText, notificationArea>>
    /\ UNCHANGED <<categorySelect, summarizeButtonDisabled, transcribeFetches, summarizeFetches>>

\* (variant: the rejecting paths forget audioFile.value = '')
AudioFileChangeKeepsFile(f) ==
    /\ f # audioFile
    /\ event' = Event("change", f, NoResponse)
    /\ IF f # None /\ Validate(f) # "Ok"
       THEN /\ notificationArea' = showNotification(
                   IF Validate(f) = "InvalidType" THEN InvalidTypeMessage ELSE TooLargeMessage,
                   "error")
            /\ audioFile' = f
            /\ transcribeButtonDisabled' = TRUE
            /\ UNCHANGED <<transcriptionOutput, summaryOutput, notesOutput, transcribedText>>
       ELSE /\ audioFile' = f
            /\ transcribeButtonDisabled' = (f = None)
            /\ transcriptionOutput' = ""
            /\ summaryOutput' = ""
            /\ notesOutput' = ""
            /\ transcribedText' = ""
            /\ UNCHANGED notificationArea
    /\ UNCHANGED <<categorySelect, summarizeButtonDisabled, transcribeFetches, summarizeFetches>>

\* audioFile change listener; f is the file the user picked (None: the
\* selection was emptied).  The browser fires change only when the
\* selection changes.
AudioFileChange(f) ==
    /\ f # audioFile
    /\ event' = Event("change", f, NoResponse)
    /\ IF f # None /\ Validate(f) = "InvalidType"
       THEN /\ notificationArea' = showNotification(InvalidTypeMessage, "error")
            /\ audioFile' = None
            /\ transcribeButtonDisabled' = TRUE
            /\ UNCHANGED <<transcriptionOutput, summaryOutput, notesOutput, transcribedText>>
       ELSE IF f # None /\ Validate(f) = "TooLarge"
       THEN /\ notificationArea' = showNotification(TooLargeMessage, "error")
            /\ audioFile' = None
            /\ transcribeButtonDisabled' = TRUE
            /\ UNCHANGED <<transcriptionOutput, summaryOutput, notesOutput, transcribedText>>
       ELSE /\ audioFile' = f
            /\ transcribeButtonDisabled' = (f = None)
            /\ transcriptionOutput' = ""
            /\ summaryOutput' = ""
            /\ notesOutput' = ""
            /\ transcribedText' = ""
            /\ UNCHANGED notificationArea
    /\ UNCHANGED <<categorySelect, summarizeButtonDisabled, transcribeFetches, summarizeFetches>>

\* transcribeButton click listener, up to the await of fetch.  A disabled
\* button receives no click.
TranscribeClick ==
    /\ ~transcribeButtonDisabled
    /\ event' = Event("transcribeClick", audioFile, NoResponse)
    /\ IF audioFile = None
       THEN /\ notificationArea' = showNotification("Please select an audio file first.", "error")
            /\ UNCHANGED <<transcribeButtonDisabled, summarizeButtonDisabled, transcriptionOutput,
                           summaryOutput, notesOutput, transcribeFetches>>
       ELSE /\ BagCardinality(transcribeFetches) < MaxTranscribeFetches
            /\ transcribeButtonDisabled' = TRUE
            /\ summarizeButtonDisabled' = TRUE
            /\ transcriptionOutput' = "Transcribing... Please wait."
            /\ summaryOutput' = ""
            /\ notesOutput' = ""
            /\ notificationArea' = showNotification("Transcription started...", "info")
            /\ transcribeFetches' = transcribeFetches (+) SetToBag({[file |-> audioFile]})
    /\ UNCHANGED <<audioFile, categorySelect, transcribedText, summarizeFetches>>

\* transcribeButton click listener from the await of fetch to its end, run
\* when the awaited fetch c settles with response r
TranscribeResolve(c, r) ==
    /\ BagIn(c, transcribeFetches)
    /\ transcribeFetches' = transcribeFetches (-) SetToBag({c})
    /\ event' = Event("transcribeResolve", c.file, r)
    /\ IF Throws(r)
       THEN /\ transcriptionOutput' = "Error during transcription: " \o ThrownMessage(r)
            /\ notificationArea' =
                   showNotification("Error during transcription: " \o ThrownMessage(r), "error")
            /\ UNCHANGED <<transcribedText, summarizeButtonDisabled>>
       ELSE /\ transcribedText' = r.transcription
            /\ transcriptionOutput' = ToDOMString(r.transcription)
            /\ summarizeButtonDisabled' = FALSE
            /\ notificationArea' = showNotification("Transcription complete!", "success")
    /\ transcribeButtonDisabled' = FALSE
    /\ UNCHANGED <<audioFile, categorySelect, summaryOutput, notesOutput, summarizeFetches>>

\* (variant: the listener lacks the `if (!transcribedText)` guard)
SummarizeClickNoGuard ==
    /\ ~summarizeButtonDisabled
    /\ event' = Event("summarizeClick", audioFile, NoResponse)
    /\ BagCardinality(summarizeFetches) < MaxSummarizeFetches
    /\ summarizeButtonDisabled' = TRUE
    /\ summaryOutput' = "Generating summary... Please wait."
    /\ notesOutput' = "Generating notes... Please wait."
    /\ notificationArea' = showNotification("Generating summary and notes...", "info")
    /\ summarizeFetches' = summarizeFetches (+)
           SetToBag({[transcribed_text |-> transcribedText, category |-> categorySelect]})
    /\ UNCHANGED <<audioFile, categorySelect, transcribeButtonDisabled, transcriptionOutput,
                   transcribedText, transcribeFetches>>

\* (variant: the category is the one read when the page was set up, not
\* the selector's value at the click)
SummarizeClickStaleCategory ==
    /\ ~summarizeButtonDisabled
    /\ event' = Event("summarizeClick", audioFile, NoResponse)
    /\ IF ~Truthy(transcribedText)
       THEN /\ notificationArea' = showNotification("Please transcribe audio first.", "error")
            /\ UNCHANGED <<summarizeButtonDisabled, summaryOutput, notesOutput, summarizeFetches>>
       ELSE /\ BagCardinality(summarizeFetches) < MaxSummarizeFetches
            /\ summarizeButtonDisabled' = TRUE
            /\ summaryOutput' = "Generating summary... Please wait."
            /\ notesOutput' = "Generating notes... Please wait."
            /\ notificationArea' = showNotification("Generating summary and notes...", "info")
            /\ summarizeFetches' = summarizeFetches (+)
                   SetToBag({[transcribed_text |-> transcribedText, category |-> "meeting"]})
    /\ UNCHANGED <<audioFile, categorySelect, transcribeButtonDisabled, transcriptionOutput,
                   transcribedText, transcribeFetches>>

\* summarizeButton click listener, up to the await of fetch
SummarizeClick ==
    /\ ~summarizeButtonDisabled
    /\ event' = Event("summarizeClick", audioFile, NoResponse)
    /\ IF ~Truthy(transcribedText)
       THEN /\ notificationArea' = showNotification("Please transcribe audio first.", "error")
            /\ UNCHANGED <<summarizeButtonDisabled, summaryOutput, notesOutput, summarizeFetches>>
       ELSE /\ BagCardinality(summarizeFetches) < MaxSummarizeFetches
            /\ summarizeButtonDisabled' = TRUE
            /\ summaryOutput' = "Generating summary... Please wait."
            /\ notesOutput' = "Generating notes... Please wait."
            /\ notificationArea' = showNotification("Generating summary and notes...", "info")
            /\ summarizeFetches' = summarizeFetches (+)
                   SetToBag({[transcribed_text |-> transcribedText, category |-> categorySelect]})
    /\ UNCHANGED <<audioFile, categorySelect, transcribeButtonDisabled, transcriptionOutput,
                   transcribedText, transcribeFetches>>

\* summarizeButton click listener from the await of fetch to its end.  With
\* no notes in the body, data.notes.map throws after the summary was set and
\* the catch block overwrites it.
SummarizeResolve(c, r) ==
    /\ BagIn(c, summarizeFetches)
    /\ summarizeFetches' = summarizeFetches (-) SetToBag({c})
    /\ event' = Event("summarizeResolve", audioFile, r)
    /\ IF Throws(r) \/ r.notes = NoNotes
       THEN LET message == IF Throws(r) THEN ThrownMessage(r) ELSE NotesTypeErrorMessage
            IN /\ summaryOutput' = "Error during summarization: " \o message
               /\ notesOutput' = ""
               /\ notificationArea' =
                      showNotification("Error during summarization: " \o message, "error")
       ELSE /\ summaryOutput' = ToDOMString(r.summary)
            /\ notesOutput' = RenderNotes(r.notes)
            /\ notificationArea' = showNotification("Summary and notes generated!", "success")
    /\ summarizeButtonDisabled' = FALSE
    /\ UNCHANGED <<audioFile, categorySelect, transcribeButtonDisabled, transcriptionOutput,
                   transcribedText, transcribeFetches>>

\* the user picks another option of the category selector (no listener)
CategoryChange(c) ==
    /\ c # categorySelect
    /\ categorySelect' = c
    /\ event' = Event("category", None, NoResponse)
    /\ UNCHANGED <<audioFile, transcribeButtonDisabled, summarizeButtonDisabled,
                   transcriptionOutput, summaryOutput, notesOutput, notificationArea,
                   transcribedText, transcribeFetches, summarizeFetches>>

\* the 5000 ms timer of showNotification retires the notification in the slot
NotificationRetire ==
    /\ notificationArea # NoNotification
    /\ notificationArea' = NoNotification
    /\ event' = Event("retire", None, NoResponse)
    /\ UNCHANGED <<audioFile, categorySelect, transcribeButtonDisabled, summarizeButtonDisabled,
                   transcriptionOutput, summaryOutput, notesOutput,
                   transcribedText, transcribeFetches, summarizeFetches>>

Next ==
    \/ ResetClick
    \/ \E f \in Files \cup {None} : AudioFileChange(f)
    \/ TranscribeClick
    \/ \E c \in BagToSet(transcribeFetches) : \E r \in TranscribeResponses(c.file) :
           TranscribeResolve(c, r)
    \/ SummarizeClick
    \/ \E c \in BagToSet(summarizeFetches) : \E r \in SummarizeResponses :
           SummarizeResolve(c, r)
    \/ \E c \in Categories : CategoryChange(c)
    \/ NotificationRetire

Spec == Init /\ [][Next]_vars

\* no fetch is awaited
NoFetch == transcribeFetches = EmptyBag /\ summarizeFetches = EmptyBag

\* The same handlers under a user who lets every call settle before the
\* next click, with every kind of response body.
NextOneCall ==
    \/ ResetClick
    \/ \E f \in Files \cup {None} : AudioFileChange(f)
    \/ NoFetch /\ TranscribeClick
    \/ \E c \in BagToSet(transcribeFetches) : \E r \in AllTranscribeResponses(c.file) :
           TranscribeResolve(c, r)
    \/ NoFetch /\ SummarizeClick
    \/ \E c \in BagToSet(summarizeFetches) : \E r \in AllSummarizeResponses :
           SummarizeResolve(c, r)
    \/ \E c \in Categories : CategoryChange(c)
    \/ NotificationRetire

SpecOneCall == Init /\ [][NextOneCall]_vars

\* ================================================ the alert-based handlers
\* The second DOMContentLoaded block of script.js: the same elements and a
\* transcribedText of its own, window.alert in place of the notification
\* area, and no check of the picked file.  Taken on its own, as the page with
\* this block's listeners.  The state variables are the same; the
\* notification slot stays empty and the last alert is kept in the history.

\* files the user can pick: the block makes no check, so every type (also
\* none) and every size (also empty) is a file like any other
AlertFileNames == {"a.wav", "b.mp3", "c.m4a", "d.txt"}
AlertFileTypes == allowedTypes \cup {"text/plain", ""}
AlertFileSizes == {0, 2 * 1024 * 1024, maxSizeMB * 1024 * 1024, maxSizeMB * 1024 * 1024 + 1}
AlertFiles == [name : AlertFileNames, type : AlertFileTypes, size : AlertFileSizes]

NoAlert == ""

\* the history of a listener run: what ran, on what, and the alert it raised
AlertEvent(kind, file, response, alert) ==
    [kind |-> kind, file |-> file, response |-> response, before |-> transcribedText,
     alert |-> alert]

\* resetUI() of the block; its first statement empties the file input
AlertResetUI ==
    /\ audioFile' = None
    /\ categorySelect' = "meeting"
    /\ transcribeButtonDisabled' = TRUE
    /\ summarizeButtonDisabled' = TRUE
    /\ transcriptionOutput' = ""
    /\ summaryOutput' = ""
    /\ notesOutput' = ""
    /\ transcribedText' = ""

\* the page as loaded, after the initial resetUI() call
AlertInit ==
    /\ audioFile = None
    /\ categorySelect = "meeting"
    /\ transcribeButtonDisabled = TRUE
    /\ summarizeButtonDisabled = TRUE
    /\ transcriptionOutput = ""
    /\ summaryOutput = ""
    /\ notesOutput = ""
    /\ transcribedText = ""
    /\ notificationArea = NoNotification
    /\ transcribeFetches = EmptyBag
    /\ summarizeFetches = EmptyBag
    /\ event = [kind |-> "load", file |-> None, response |-> NoResponse, before |-> "",
                alert |-> NoAlert]

\* audioFile change listener: the user's pick f (None: the pick is taken
\* away) is in audioFile.files when it runs.  The listener sets
\* transcribeButton.disabled = !audioFile.files.length, that is (f = None),
\* and then calls resetUI(), which assigns the same property again and
\* empties the input.
AlertAudioFileChange(f) ==
    /\ f # audioFile
    /\ event' = AlertEvent("change", f, NoResponse, NoAlert)
    /\ AlertResetUI
    /\ UNCHANGED <<notificationArea, transcribeFetches, summarizeFetches>>

\* resetButton click listener
AlertResetClick ==
    /\ AlertResetUI
    /\ event' = AlertEvent("reset", None, NoResponse, "UI has been reset.")
    /\ UNCHANGED <<notificationArea, transcribeFetches, summarizeFetches>>

\* transcribeButton click listener, up to the await of fetch
AlertTranscribeClick ==
    /\ ~transcribeButtonDisabled
    /\ IF audioFile = None
       THEN /\ event' = AlertEvent("transcribeClick", audioFile, NoResponse,
                                   "Please select an audio file first.")
            /\ UNCHANGED <<transcribeButtonDisabled, summarizeButtonDisabled,
                           transcriptionOutput, summaryOutput, notesOutput, transcribeFetches>>
       ELSE /\ BagCardinality(transcribeFetches) < MaxTranscribeFetches
            /\ event' = AlertEvent("transcribeClick", audioFile, NoResponse, NoAlert)
            /\ transcribeButtonDisabled' = TRUE
            /\ summarizeButtonDisabled' = TRUE
            /\ transcriptionOutput' = "Transcribing..."
            /\ summaryOutput' = ""
            /\ notesOutput' = ""
            /\ transcribeFetches' = transcribeFetches (+) SetToBag({[file |-> audioFile]})
    /\ UNCHANGED <<audioFile, categorySelect, transcribedText, notificationArea,
                   summarizeFetches>>

\* transcribeButton click listener from the await of fetch to its end, run
\* when the awaited fetch c settles with response r
AlertTranscribeResolve(c, r) ==
    /\ BagIn(c, transcribeFetches)
    /\ transcribeFetches' = transcribeFetches (-) SetToBag({c})
    /\ IF Throws(r)
       THEN /\ transcriptionOutput' = "Error during transcription: " \o ThrownMessage(r)
            /\ event' = AlertEvent("transcribeResolve", c.file, r,
                                   "Error during transcription: " \o ThrownMessage(r))
            /\ UNCHANGED <<transcribedText, summarizeButtonDisabled>>
       ELSE /\ transcribedText' = r.transcription
            /\ transcriptionOutput' = ToDOMString(r.transcription)
            /\ summarizeButtonDisabled' = FALSE
            /\ event' = AlertEvent("transcribeResolve", c.file, r, "Transcription complete!")
    /\ transcribeButtonDisabled' = FALSE
    /\ UNCHANGED <<audioFile, categorySelect, summaryOutput, notesOutput, notificationArea,
                   summarizeFetches>>

\* summarizeButton click listener, up to the await of fetch
AlertSummarizeClick ==
    /\ ~summarizeButtonDisabled
    /\ IF ~Truthy(transcribedText)
       THEN /\ event' = AlertEvent("summarizeClick", audioFile, NoResponse,
                                   "Please transcribe audio first.")
            /\ UNCHANGED <<summarizeButtonDisabled, summaryOutput, notesOutput, summarizeFetches>>
       ELSE /\ BagCardinality(summarizeFetches) < MaxSummarizeFetches
            /\ event' = AlertEvent("summarizeClick", audioFile, NoResponse, NoAlert)
            /\ summarizeButtonDisabled' = TRUE
            /\ summaryOutput' = "Generating summary..."
            /\ notesOutput' = "Generating notes..."
            /\ summarizeFetches' = summarizeFetches (+)
                   SetToBag({[transcribed_text |-> transcribedText, category |-> categorySelect]})
    /\ UNCHANGED <<audioFile, categorySelect, transcribeButtonDisabled, transcriptionOutput,
                   transcribedText, notificationArea, transcribeFetches>>

\* summarizeButton click listener from the await of fetch to its end
AlertSummarizeResolve(c, r) ==
    /\ BagIn(c, summarizeFetches)
    /\ summarizeFetches' = summarizeFetches (-) SetToBag({c})
    /\ IF Throws(r) \/ r.notes = NoNotes
       THEN LET message == IF Throws(r) THEN ThrownMessage(r) ELSE NotesTypeErrorMessage
            IN /\ summaryOutput' = "Error during summarization: " \o message
               /\ notesOutput' = ""
               /\ event' = AlertEvent("summarizeResolve", audioFile, r,
                                      "Error during summarization: " \o message)
       ELSE /\ summaryOutput' = ToDOMString(r.summary)
            /\ notesOutput' = RenderNotes(r.notes)
            /\ event' = AlertEvent("summarizeResolve", audioFile, r,
                                   "Summary and notes generated!")
    /\ summarizeButtonDisabled' = FALSE
    /\ UNCHANGED <<audioFile, categorySelect, transcribeButtonDisabled, transcriptionOutput,
                   transcribedText, notificationArea, transcribeFetches>>

\* the user picks another option of the category selector (no listener)
AlertCategoryChange(c) ==
    /\ c # categorySelect
    /\ categorySelect' = c
    /\ event' = AlertEvent("category", None, NoResponse, NoAlert)
    /\ UNCHANGED <<audioFile, transcribeButtonDisabled, summarizeButtonDisabled,
                   transcriptionOutput, summaryOutput, notesOutput, notificationArea,
                   transcribedText, transcribeFetches, summarizeFetches>>

\* what the event loop can deliver to the block: the user's events on the
\* five controls and the settling of an awaited fetch
AlertEventKinds ==
    {"change", "reset", "transcribeClick", "transcribeResolve",
     "summarizeClick", "summarizeResolve", "category"}

\* One turn of the event loop: an event of the given kind is delivered and
\* its listener (or the continuation waiting on the fetch) runs to its end
\* or to its next await.  A disabled button delivers no click and a fetch
\* nobody awaits settles for nobody, so a kind can have nothing to deliver.
AlertDispatch(kind) ==
    CASE kind = "change" ->
             \E f \in AlertFiles \cup {None} : AlertAudioFileChange(f)
      [] kind = "reset" -> AlertResetClick
      [] kind = "transcribeClick" -> AlertTranscribeClick
      [] kind = "transcribeResolve" ->
             \E c \in BagToSet(transcribeFetches) : \E r \in TranscribeResponses(c.file) :
                 AlertTranscribeResolve(c, r)
      [] kind = "summarizeClick" -> AlertSummarizeClick
      [] kind = "summarizeResolve" ->
             \E c \in BagToSet(summarizeFetches) : \E r \in SummarizeResponses :
                 AlertSummarizeResolve(c, r)
      [] kind = "category" -> \E c \in Categories : AlertCategoryChange(c)

NextAlert == \E kind \in AlertEventKinds : AlertDispatch(kind)

SpecAlert == AlertInit /\ [][NextAlert]_vars

\* =================================================================== claims
maxSizeBytes == maxSizeMB * 1024 * 1024

\* the last handler run was the change listener, for a picked file
FileWasPicked == event.kind = "change" /\ event.file # None

\* everything the session holds besides the notification slot and the history
session == <<audioFile, categorySelect, transcribeButtonDisabled, summarizeButtonDisabled,
             transcriptionOutput, summaryOutput, notesOutput, transcribedText,
             transcribeFetches, summarizeFetches>>

\* C1: when the response to the upload of a file arrives while another
\* (valid) file is the selected one, the response changes neither the
\* stored transcript nor the transcript area nor the summarize control.
C1_LateTranscriptionIgnored ==
    [][\A c \in BagToSet(transcribeFetches) : \A r \in TranscribeResponses(c.file) :
          (TranscribeResolve(c, r) /\ audioFile # None /\ c.file # audioFile)
              => UNCHANGED <<transcribedText, transcriptionOutput, summarizeButtonDisabled>>]_vars

\* C2: a response that arrives right after a reset (the call was outstanding
\* when reset was clicked) has no effect: transcript, summary and notes are
\* still empty and both controls still disabled after it.
C2_ResponseAfterResetIgnored ==
    [][(event.kind = "reset" /\ event'.kind \in {"transcribeResolve", "summarizeResolve"})
          => /\ transcribedText' = ""
             /\ transcriptionOutput' = ""
             /\ summaryOutput' = ""
             /\ notesOutput' = ""
             /\ transcribeButtonDisabled'
             /\ summarizeButtonDisabled']_vars

\* C3: at most one transcription request is outstanding in every reachable
\* state.
C3_OneTranscriptionOutstanding == BagCardinality(transcribeFetches) <= 1

\* C4: at most one summarization request is outstanding in every reachable
\* state.
C4_OneSummarizationOutstanding == BagCardinality(summarizeFetches) <= 1

\* C5: after the selection of a file that fails validation an error
\* notification is shown, no file is selected, and transcript, summary and
\* notes are empty.
C5_RejectedFileClearsSession ==
    (FileWasPicked /\ Validate(event.file) # "Ok")
        => /\ notificationArea.type = "error"
           /\ audioFile = None
           /\ transcribedText = ""
           /\ transcriptionOutput = ""
           /\ summaryOutput = ""
           /\ notesOutput = ""

\* C6: after the selection of a valid file made while a transcript was
\* stored (Transcribed or Summarized), transcript, summary and notes are
\* empty, the file is the selected one and the transcribe control is enabled.
C6_ValidFileResets ==
    (FileWasPicked /\ Validate(event.file) = "Ok" /\ Truthy(event.before))
        => /\ transcribedText = ""
           /\ transcriptionOutput = ""
           /\ summaryOutput = ""
           /\ notesOutput = ""
           /\ audioFile = event.file
           /\ ~transcribeButtonDisabled

\* a valid file was selected while a transcript was stored and no call was
\* outstanding
C6_Witness ==
    /\ FileWasPicked /\ Validate(event.file) = "Ok" /\ Truthy(event.before)
    /\ transcribeFetches = EmptyBag /\ summarizeFetches = EmptyBag
    /\ ~summarizeButtonDisabled

\* C7: a summarize click made while the stored transcript is empty (or
\* undefined) issues no request and changes nothing of the session, and no
\* outstanding summarization request carries an empty transcript.
C7_NoSummaryOfEmptyTranscript ==
    /\ [](\A c \in BagToSet(summarizeFetches) : Truthy(c.transcribed_text))
    /\ [][(event'.kind = "summarizeClick" /\ ~Truthy(transcribedText))
             => UNCHANGED session]_vars

\* the summarize control was clicked while the stored transcript was empty
C7_Witness ==
    /\ event.kind = "summarizeClick" /\ ~Truthy(event.before)
    /\ notificationArea.message = "Please transcribe audio first."

\* C8 as stated: every picked file larger than the ceiling is rejected with
\* the too-large notification, whatever its type.
C8_TooLargeWhateverType ==
    (FileWasPicked /\ event.file.size > maxSizeBytes)
        => notificationArea = showNotification(TooLargeMessage, "error")

\* C8 amended: every picked file larger than the ceiling is rejected (no
\* file selected, transcribe control disabled), with the too-large
\* notification when its type is in the allow-list and with the
\* invalid-type notification when it is not.
C8_TooLargeRejected ==
    (FileWasPicked /\ event.file.size > maxSizeBytes)
        => /\ audioFile = None
           /\ transcribeButtonDisabled
           /\ notificationArea =
                  showNotification(IF event.file.type \in allowedTypes
                                   THEN TooLargeMessage ELSE InvalidTypeMessage, "error")

\* a file larger than the ceiling and of a type outside the allow-list was
\* picked
C8_Witness ==
    FileWasPicked /\ event.file.size > maxSizeBytes /\ event.file.type \notin allowedTypes

\* C9: every picked file of a type outside the allow-list is rejected with
\* the invalid-type notification, and a picked file is the selected one
\* afterwards only if its type is in the allow-list and its size is at most
\* the ceiling.
C9_InvalidTypeRejected ==
    FileWasPicked
        => /\ event.file.type \notin allowedTypes
               => /\ notificationArea = showNotification(InvalidTypeMessage, "error")
                  /\ audioFile = None
                  /\ transcribeButtonDisabled
           /\ audioFile = event.file
               => event.file.type \in allowedTypes /\ event.file.size <= maxSizeBytes

\* a file of a type outside the allow-list and within the ceiling was picked
C9_Witness ==
    FileWasPicked /\ event.file.type \notin allowedTypes /\ event.file.size <= maxSizeBytes

\* C10: every transcription request issued carries a file that passed
\* validation.
C10_OnlyValidFilesSent ==
    \A c \in BagToSet(transcribeFetches) : c.file # None /\ Validate(c.file) = "Ok"

\* the transcribe control was clicked, enabled by a late response, after a
\* rejected file had emptied the selection
C10_Witness ==
    /\ event.kind = "transcribeClick" /\ event.file = None
    /\ notificationArea.message = "Please select an audio file first."

\* the step is the continuation of the transcribe click made just before it
\* (nothing ran in between), for the file still selected, with a response
\* that makes the try block throw for a non-2xx status or a transport failure
TranscriptionJustFailed ==
    /\ event.kind = "transcribeClick" /\ event.file # None
    /\ event'.kind = "transcribeResolve" /\ event'.file = audioFile
    /\ ~event'.response.network \/ ~event'.response.ok

\* C11: when the transcription call fails with detail d (or with a transport
\* failure), an error notification carrying d (bare, or after the
\* listener's "Error during transcription: ") is shown, the file is still
\* selected, the stored transcript is empty, the summarize control is
\* disabled and the transcribe control enabled, whatever the state the
\* click was made in.
C11_TranscriptionFailureToFileSelected ==
    [][TranscriptionJustFailed
          => /\ notificationArea'.type = "error"
             /\ Truthy(event'.response.detail)
                    => notificationArea'.message \in
                           { event'.response.detail,
                             "Error during transcription: " \o event'.response.detail }
             /\ audioFile' = event'.file
             /\ ~Truthy(transcribedText')
             /\ summarizeButtonDisabled'
             /\ ~transcribeButtonDisabled']_vars

\* C12: after a 2xx transcription response whose body has no transcription
\* property, an error notification is shown and the stored transcript is
\* what it was before the response.
C12_MissingTranscriptionIsFailure ==
    (/\ event.kind = "transcribeResolve"
     /\ event.response.network /\ event.response.ok /\ event.response.parses
     /\ event.response.transcription = Undefined)
        => /\ notificationArea.type = "error"
           /\ transcribedText = event.before

\* the listener's prefix of the error text for the call that just settled
ErrorPrefix ==
    IF event.kind = "transcribeResolve" THEN "Error during transcription: "
    ELSE "Error during summarization: "

\* C13: after a non-2xx response of either call whose body is not JSON or
\* has no detail, the error shown is the generic message for the response's
\* status.
C13_GenericStatusMessage ==
    (/\ event.kind \in {"transcribeResolve", "summarizeResolve"}
     /\ event.response.network /\ ~event.response.ok
     /\ ~event.response.parses \/ ~Truthy(event.response.detail))
        => notificationArea =
               showNotification(ErrorPrefix \o "HTTP error! status: "
                                    \o ToString(event.response.status), "error")

\* the summarization call that just settled failed: transport failure,
\* non-2xx status, or a body that is not JSON or lacks summary or notes
SummarizationFailed ==
    /\ event'.kind = "summarizeResolve"
    /\ \/ ~event'.response.network
       \/ ~event'.response.ok
       \/ ~event'.response.parses
       \/ event'.response.summary = Undefined
       \/ event'.response.notes = NoNotes

\* C14: when a summarization call fails, an error notification is shown,
\* the summary area holds no summary (it is empty or shows the error), the
\* notes are empty, stored transcript and selected file are unchanged and
\* the summarize control is enabled.
C14_SummarizationFailureToTranscribed ==
    [][SummarizationFailed
          => /\ notificationArea'.type = "error"
             /\ summaryOutput' \in {"", notificationArea'.message}
             /\ notesOutput' = ""
             /\ UNCHANGED <<transcribedText, audioFile>>
             /\ ~summarizeButtonDisabled']_vars

\* C15: after a reset click no file is selected, the category is meeting,
\* transcript, summary and notes are empty and both controls are disabled.
C15_ResetRecreatesSession ==
    event.kind = "reset"
        => /\ audioFile = None
           /\ categorySelect = "meeting"
           /\ transcribedText = ""
           /\ transcriptionOutput = ""
           /\ summaryOutput = ""
           /\ notesOutput = ""
           /\ transcribeButtonDisabled
           /\ summarizeButtonDisabled

\* C16: right after a transcription success carrying a text has been
\* applied (the session is in Transcribed), the stored transcript is not
\* empty.
C16_TranscribedHasTranscript ==
    (/\ event.kind = "transcribeResolve"
     /\ ~Throws(event.response)
     /\ event.response.transcription # Undefined)
        => Truthy(transcribedText)

RECURSIVE ListItems(_, _)
\* the first n notes as list items, one after the other in the order received
ListItems(notes, n) ==
    IF n = 0 THEN ""
    ELSE ListItems(notes, n - 1) \o "<li>" \o notes[n] \o "</li>"

\* C17: after a transcription success with a non-empty text t the stored
\* transcript and the transcript area are t and the summarize control is
\* enabled; after a summarization success (s, notes) the summary area is s
\* and the notes area lists the notes in the order received.
C17_RoundTrip ==
    /\ (/\ event.kind = "transcribeResolve"
        /\ ~Throws(event.response)
        /\ Truthy(event.response.transcription))
           => /\ transcribedText = event.response.transcription
              /\ transcriptionOutput = event.response.transcription
              /\ ~summarizeButtonDisabled
    /\ (/\ event.kind = "summarizeResolve"
        /\ ~Throws(event.response)
        /\ event.response.summary # Undefined
        /\ event.response.notes # NoNotes)
           => /\ summaryOutput = event.response.summary
              /\ notesOutput = ListItems(event.response.notes, Len(event.response.notes))
              /\ notificationArea.type = "success"

\* the whole round trip was made for the selected file: its transcript is
\* stored and shown, summary and notes of the last response are rendered
C17_Witness ==
    /\ event.kind = "summarizeResolve" /\ ~Throws(event.response)
    /\ audioFile # None
    /\ transcribedText = TextOf(audioFile)
    /\ transcriptionOutput = transcribedText
    /\ summaryOutput = "<p>ok</p>"
    /\ notesOutput = "<li>a</li><li>b</li>"
    /\ NoFetch

\* C18: a summarize click that issues a request issues exactly one, carrying
\* the stored transcript and the category selected at that moment; a change
\* of the category selector changes neither the outstanding requests nor
\* the summary and notes shown.
C18_CategoryReadAtClick ==
    /\ [][(event'.kind = "summarizeClick" /\ summarizeFetches' # summarizeFetches)
             => summarizeFetches' = summarizeFetches (+)
                    SetToBag({[transcribed_text |-> transcribedText,
                               category |-> categorySelect]})]_vars
    /\ [][(event'.kind = "category" /\ categorySelect' # categorySelect)
             => UNCHANGED <<summarizeFetches, summaryOutput, notesOutput>>]_vars

\* the selector was moved back to meeting while a request issued for
\* lecture is outstanding
C18_Witness ==
    /\ event.kind = "category"
    /\ categorySelect = "meeting"
    /\ \E c \in BagToSet(summarizeFetches) : c.category = "lecture"

\* C19: after the selection of a file (accepted or rejected), if the
\* summarize control is enabled then the stored transcript is not empty and
\* is the transcript of the file now selected.
C19_SummarizeEnabledHasOwnTranscript ==
    (FileWasPicked /\ ~summarizeButtonDisabled)
        => /\ Truthy(transcribedText)
           /\ audioFile # None
           /\ transcribedText = TextOf(audioFile)

\* C20: if the transcribe control is enabled then a file that passed
\* validation is selected and no transcription call is outstanding.
C20_TranscribeEnabledHasFile ==
    ~transcribeButtonDisabled
        => /\ audioFile # None
           /\ Validate(audioFile) = "Ok"
           /\ transcribeFetches = EmptyBag

\* C21: whenever a summarize click has just issued a request, the text the
\* request carries (the stored transcript) is what the transcript area
\* shows.
C21_SummarizedTextIsShown ==
    (/\ event.kind = "summarizeClick"
     /\ notificationArea = showNotification("Generating summary and notes...", "info"))
        => /\ transcriptionOutput = event.before
           /\ BagIn([transcribed_text |-> transcriptionOutput, category |-> categorySelect],
                    summarizeFetches)

\* the alert-based handlers: a file was picked and the change listener ran
AlertFileWasPicked == event.kind = "change" /\ event.file \in AlertFiles

\* C22: in the alert-based handler set, once the change listener has run
\* for a picked file, the transcribe control is enabled and the file is
\* still selected, so that a transcribe click can follow and issues a
\* transcription request for that file.
C22_AlertFileSelectionEnablesTranscribe ==
    AlertFileWasPicked =>
        /\ ~transcribeButtonDisabled
        /\ audioFile = event.file
        /\ ENABLED (/\ AlertTranscribeClick
                    /\ transcribeFetches' = transcribeFetches (+) SetToBag({[file |-> event.file]}))

\* In the alert-based handler set every listener that runs ends in
\* resetUI(): no file stays selected, both controls stay disabled and no
\* fetch is ever issued.
AlertNothingEverEnabled ==
    /\ audioFile = None
    /\ transcribeButtonDisabled
    /\ summarizeButtonDisabled
    /\ transcribedText = ""
    /\ NoFetch

====
